---- MODULE Spec2Model ----
(***************************************************************************)
(* Model of the Onboardly dashboard (src/src/pages/Dashboard.jsx): the     *)
(* session gate and initial load (fetchAll), the four realtime change      *)
(* subscriptions and their reducers, the manual refresh, and the effect    *)
(* cleanups that run on unmount; the theme preference, the derived values  *)
(* (adoption average, chart data, CSV export), and the routes of App.jsx   *)
(* with the login form of Login.jsx.                                       *)
(*                                                                         *)
(* Spec is the dashboard's lifecycle with change events, SpecReconcile the *)
(* reducers under longer event streams, SpecView the lifecycle with the    *)
(* theme toggle, SpecStats, SpecChart and SpecCsv the derived values of a  *)
(* loaded page, SpecApp the routes and the login form.                     *)
(*                                                                         *)
(* A React state setter is modelled as an assignment to the state variable *)
(* it belongs to, whenever the code calls it.  The code's own isMounted    *)
(* flag and the channels' unsubscribe are the only things that keep a      *)
(* callback from writing after the component has been unmounted.           *)
(***************************************************************************)
EXTENDS Integers, Sequences, FiniteSets, TLC

VARIABLES
    life,           \* "new" | "mounted" | "unmounted": the component instance
    route,          \* current route, changed by navigate()
    isMounted,      \* the flag of the fetch effect's closure (line 90)
    pc,             \* position of fetchAll
    session,        \* what the session query reported
    user,
    employees, apps, onboardings, activities,
    loading, error,
    empData, appsData, onboardData,   \* locals of fetchAll
    channel,        \* per table: "none" | "open" | "closed"
    closeCalled,    \* tables whose channel had unsubscribe() invoked
    refreshPending, \* handleRefresh is awaiting Promise.all
    nEvents,
    lastOp,         \* the handler step taken last
    lastEv,         \* per table and key: the last change event applied
    theme,          \* the active display theme
    storedTheme,    \* localStorage item "onboardly_theme"
    adoptionAvg,    \* stats.adoptionAvg as last computed
    chartData,      \* chartData as last computed
    clock,          \* the time and the time zone chartData reads
    exported,       \* the CSV text last handed to the download
    view,           \* the page App renders
    email, password, isLogin, message,   \* state of the login form
    pending         \* handleAuth calls awaiting the auth service

vars == <<life, route, isMounted, pc, session, user, employees, apps,
          onboardings, activities, loading, error, empData, appsData,
          onboardData, channel, closeCalled, refreshPending, nEvents,
          lastOp, lastEv, theme, storedTheme, adoptionAvg, chartData, clock,
          exported, view, email, password, isLogin, message, pending>>

themeVars == <<theme, storedTheme>>

\* values derived from the collections when the dashboard renders or exports
derived == <<adoptionAvg, chartData, clock, exported>>

loginVars == <<email, password, isLogin, message, pending>>

\* state outside the dashboard's handlers
offPage == <<derived, view, loginVars>>

aux == <<themeVars, offPage>>

colls == <<employees, apps, onboardings, activities>>

----------------------------------------------------------------------------
(* Bounds of the model *)

MaxEvents == 1
MaxReconcileEvents == 4
MaxCloseFailures == 1
MaxOnboardings == 3
MaxChartRecords == 2
MaxCsvRows == 2
MaxTextLen == 2
MaxPending == 2

(* Program constants *)

ActivityCap == 100
InitialActivityLimit == 50
ChartDays == 7
RefreshActivityLimit == 100

(* Values *)

Keys == {1, 2}
EventVals == {2}
ProgressVals == {50, 100}
SynthBase == 1000
Nows == {1, 2}
ProgressSamples == {0, 1, 33, 50, 100}
Chars == {"a", "\""}
\* the day chartData is computed on, the hour the zone's offset changes
\* (01:00 UTC two days earlier) and the days of the records' timestamps
Today == 12
Transition == (Today - 2) * 24 + 1
DaySamples == {Today - 7, Today - 2, Today}
LoadKey == CHOOSE k \in Keys : \A j \in Keys : k <= j
LoadNow == CHOOSE n \in Nows : \A j \in Nows : n <= j

EMP == "employees"
APPS == "apps"
ONB == "employee_onboardings"
ACT == "activity_logs"

Tables == {EMP, APPS, ONB, ACT}

\* the order in which the channels are pushed
ChannelOrder == <<EMP, APPS, ONB, ACT>>

\* a time zone is its offset from UTC in hours before and after its one
\* change of offset, which happens at the hour Transition
FixedZone == [before |-> 0, after |-> 0]

\* localStorage.getItem of a key never set
NoItem == "null"
NoUser == "null"
TheUser == "user-1"

----------------------------------------------------------------------------
(* Records and change events *)

ValsOf(t) == IF t = ONB THEN ProgressVals ELSE EventVals

\* payload of a postgres_changes event: DELETE carries only old.id
Events(t) ==
    [kind : {"INSERT", "UPDATE"}, id : Keys, val : ValsOf(t)]
    \cup [kind : {"DELETE"}, id : Keys, val : {0}]

NewRow(t, ev) ==
    IF t = ONB THEN [id |-> ev.id, progress |-> ev.val]
               ELSE [id |-> ev.id, val |-> ev.val]

HasKey(s, k) == \E i \in 1..Len(s) : s[i].id = k

\* a cut that keeps the last n entries: slice(-n)
TakeLast(s, n) == SubSeq(s, IF Len(s) < n THEN 1 ELSE Len(s) - n + 1, Len(s))

\* slice(0, n)
Take(s, n) == SubSeq(s, 1, IF Len(s) < n THEN Len(s) ELSE n)

\* an update that moves the record to the front
MapReplaceToFront(prev, row) ==
    <<row>> \o SelectSeq(prev, LAMBDA r : r.id # row.id)

\* prev.map((r) => (r.id === newRow.id ? newRow : r))
MapReplace(prev, row) ==
    [i \in 1..Len(prev) |-> IF prev[i].id = row.id THEN row ELSE prev[i]]

\* a delete that splices out only the first matching record
FilterOutFirst(prev, k) ==
    IF ~HasKey(prev, k) THEN prev
    ELSE LET i == CHOOSE n \in 1..Len(prev) :
                      /\ prev[n].id = k
                      /\ \A m \in 1..(n - 1) : prev[m].id # k
         IN  SubSeq(prev, 1, i - 1) \o SubSeq(prev, i + 1, Len(prev))

\* prev.filter((r) => r.id !== old.id)
FilterOut(prev, k) == SelectSeq(prev, LAMBDA r : r.id # k)

\* the reducer passed to setEmployees / setApps / setOnboardings
Reconcile(prev, kind, row, oldId) ==
    CASE kind = "INSERT" -> <<row>> \o prev
      [] kind = "UPDATE" -> MapReplace(prev, row)
      [] kind = "DELETE" -> FilterOut(prev, oldId)
      [] OTHER -> prev

\* the reducer passed to setActivities by the activity_logs handler
ReconcileActivities(prev, kind, row, oldId) ==
    CASE kind = "INSERT" -> Take(<<row>> \o prev, ActivityCap)
      [] kind = "DELETE" -> FilterOut(prev, oldId)
      [] kind = "UPDATE" -> MapReplace(prev, row)
      [] OTHER -> prev

\* the locally synthesized entry: id `act-${Date.now()}`
SyntheticEntry(now) == [id |-> SynthBase + now, val |-> 0]

\* a completion test that forgets the event type
IsCompletionAnyKind(ev) == ev.val = 100

\* a completion test that forgets the progress value
IsCompletionAnyUpdate(ev) == ev.kind = "UPDATE"

\* payload.eventType === "UPDATE" && payload.new?.progress === 100
IsCompletion(ev) == ev.kind = "UPDATE" /\ ev.val = 100

WithSynthetic(prev, ev, now) ==
    IF IsCompletion(ev) THEN <<SyntheticEntry(now)>> \o prev ELSE prev

----------------------------------------------------------------------------
(* Query results *)

Rows(n) == [i \in 1..n |-> [id |-> i, val |-> 1]]
OnbRows(n) == [i \in 1..n |-> [id |-> i, progress |-> 50]]

\* what a select("*") may return; activity_logs is cut at the query's limit
Snapshots(t, limit) ==
    CASE t = ONB -> {OnbRows(1)}
      [] t = ACT -> {Rows(limit)}
      [] OTHER   -> {Rows(1)}

\* { data, error } of a resolved query; data is null when error is set
OkResults(t, limit) ==
    [data : Snapshots(t, limit), isNull : {FALSE}, code : {""}, message : {""}]

ErrResults(codes) ==
    [data : {<<>>}, isNull : {TRUE}, code : codes, message : {"", "query failed"}]

\* an assignment that drops the fetched rows
AlwaysEmpty(res) == <<>>

\* data || []
OrEmpty(res) == IF res.isNull THEN <<>> ELSE res.data

\* err.message || fallback
MessageOr(msg, fallback) == IF msg = "" THEN fallback ELSE msg

----------------------------------------------------------------------------
\* lastOp names the handler step taken last; for a change event it keeps the
\* payload and whether the event's key was present when the callback ran
\* for a cleanup or a refresh: the tables whose call threw, and those whose
\* call resolved with an error or rejected
NoOp == [op |-> "none", table |-> "", kind |-> "", id |-> 0, val |-> 0,
         hit |-> FALSE, threw |-> {}, rejected |-> {}, msg |-> ""]
Op(name) == [NoOp EXCEPT !.op = name]
ChangeOp(t, ev, present) ==
    [NoOp EXCEPT !.op = "Change", !.table = t, !.kind = ev.kind,
                 !.id = ev.id, !.val = ev.val, !.hit = present]
\* for the cleanup: the channels whose unsubscribe() threw or rejected
UnmountOp(outcome) ==
    [NoOp EXCEPT !.op = "Unmount",
                 !.threw = {t \in Tables : outcome[t] = "throw"},
                 !.rejected = {t \in Tables : outcome[t] = "reject"}]

\* for a query of fetchAll: its table, and its error code when it failed
QueryOp(name, t, res) ==
    [NoOp EXCEPT !.op = name, !.table = t, !.kind = res.code,
                 !.rejected = IF res.code # "" THEN {t} ELSE {}]

NoEv == [kind |-> "", id |-> 0, val |-> 0]
NoEvents == [k \in Keys |-> NoEv]

DashboardInit ==
    /\ life = "new"
    /\ route = "/dashboard"
    /\ isMounted = FALSE
    /\ pc = "new"
    /\ session = "unknown"
    /\ user = NoUser
    /\ employees = <<>>
    /\ apps = <<>>
    /\ onboardings = <<>>
    /\ activities = <<>>
    /\ loading = TRUE
    /\ error = ""
    /\ empData = <<>>
    /\ appsData = <<>>
    /\ onboardData = <<>>
    /\ channel = [t \in Tables |-> "none"]
    /\ closeCalled = {}
    /\ refreshPending = FALSE
    /\ nEvents = 0
    /\ lastOp = NoOp
    /\ lastEv = [t \in Tables |-> NoEvents]

\* localStorage.getItem("onboardly_theme") || "dark"
InitialTheme(stored) == IF stored = NoItem THEN "dark" ELSE stored

\* nothing derived yet
DerivedInit ==
    /\ adoptionAvg = 0
    /\ chartData = <<>>
    /\ clock = [now |-> 0, zone |-> FixedZone]
    /\ exported = <<>>

\* Login: useState(""), useState(""), useState(true), useState("")
LoginInit ==
    /\ email = ""
    /\ password = ""
    /\ isLogin = TRUE
    /\ message = ""
    /\ pending = <<>>

\* the dashboard page on a first visit: nothing is stored yet
Init ==
    /\ DashboardInit
    /\ storedTheme = NoItem
    /\ theme = InitialTheme(storedTheme)
    /\ DerivedInit
    /\ view = "Dashboard"
    /\ LoginInit

----------------------------------------------------------------------------
(* App: the routes *)

\* a router without the wildcard route
RedirectNowhere(path) == path

\* <Route path="*" element={<Navigate to="/login" replace />} />: the
\* location once the redirect, if any, has been followed
Redirect(path) == IF path \in {"/login", "/dashboard"} THEN path ELSE "/login"

\* the element of the route matching the location
Element(path) ==
    CASE path = "/login" -> "Login"
      [] path = "/dashboard" -> "Dashboard"
      [] OTHER -> "Navigate"

----------------------------------------------------------------------------
(* Mount: both effects run; fetchAll starts and awaits getUser, then the   *)
(* four channels are subscribed.                                           *)
Mount ==
    /\ life = "new"
    /\ view = "Dashboard"
    /\ life' = "mounted"
    /\ isMounted' = TRUE
    /\ pc' = "getUser"
    /\ channel' = [t \in Tables |-> "open"]
    /\ lastOp' = Op("Mount")
    /\ UNCHANGED <<route, session, user, colls, loading, error, empData,
                   appsData, onboardData, closeCalled, refreshPending,
                   nEvents, lastEv>>
    \* the theme effect: localStorage.setItem("onboardly_theme", theme)
    /\ storedTheme' = theme
    /\ UNCHANGED <<theme, offPage>>

----------------------------------------------------------------------------
(* fetchAll: one action per continuation after an await *)

\* a finally that leaves loading as it is
FinallyLoadingKept == loading

\* finally { if (isMounted) setLoading(false) }
FinallyLoading == IF isMounted THEN FALSE ELSE loading

\* catch (err) { setError(err.message || "Failed to load data") } finally ...
FetchCatch(msg) ==
    /\ error' = MessageOr(msg, "Failed to load data")
    /\ loading' = FinallyLoading
    /\ pc' = "failed"

\* await supabase.auth.getUser() settles
GetUserThrows ==
    /\ pc = "getUser"
    /\ \E msg \in {"", "auth failed"} : FetchCatch(msg)
    /\ session' = "threw"
    /\ lastOp' = Op("GetUserThrows")
    /\ UNCHANGED <<life, route, isMounted, user, colls, empData, appsData,
                   onboardData, channel, closeCalled, refreshPending,
                   nEvents, lastEv>>
    /\ UNCHANGED aux

\* userData.user is null: navigate("/login"); return
GetUserNone ==
    /\ pc = "getUser"
    /\ session' = "none"
    /\ route' = "/login"
    /\ loading' = FinallyLoading
    /\ pc' = "redirected"
    /\ lastOp' = Op("GetUserNone")
    /\ UNCHANGED <<life, isMounted, user, colls, error, empData, appsData,
                   onboardData, channel, closeCalled, refreshPending,
                   nEvents, lastEv>>
    /\ view' = Element(Redirect("/login"))
    /\ UNCHANGED <<themeVars, derived, loginVars>>

\* userData.user is set: if (!isMounted) return; setUser; query employees
GetUserPresent ==
    /\ pc = "getUser"
    /\ session' = "present"
    /\ IF isMounted
         THEN user' = TheUser /\ pc' = "employees"
         ELSE user' = user /\ pc' = "discarded"
    /\ lastOp' = Op("GetUserPresent")
    /\ UNCHANGED <<life, route, isMounted, colls, loading, error, empData,
                   appsData, onboardData, channel, closeCalled,
                   refreshPending, nEvents, lastEv>>
    /\ UNCHANGED aux

\* the employees query settles: if (empErr) throw empErr
EmployeesResolve ==
    /\ pc = "employees"
    /\ \E res \in OkResults(EMP, 0) \cup ErrResults({"500"}) :
         /\ lastOp' = QueryOp("EmployeesResolve", EMP, res)
         /\ IF res.code # ""
           THEN FetchCatch(res.message) /\ empData' = empData
           ELSE empData' = res.data /\ pc' = "apps"
                /\ UNCHANGED <<error, loading>>
    /\ UNCHANGED <<life, route, isMounted, session, user, colls, appsData,
                   onboardData, channel, closeCalled, refreshPending,
                   nEvents, lastEv>>
    /\ UNCHANGED aux

AppsResolve ==
    /\ pc = "apps"
    /\ \E res \in OkResults(APPS, 0) \cup ErrResults({"500"}) :
         /\ lastOp' = QueryOp("AppsResolve", APPS, res)
         /\ IF res.code # ""
           THEN FetchCatch(res.message) /\ appsData' = appsData
           ELSE appsData' = res.data /\ pc' = "onboardings"
                /\ UNCHANGED <<error, loading>>
    /\ UNCHANGED <<life, route, isMounted, session, user, colls, empData,
                   onboardData, channel, closeCalled, refreshPending,
                   nEvents, lastEv>>
    /\ UNCHANGED aux

OnboardingsResolve ==
    /\ pc = "onboardings"
    /\ \E res \in OkResults(ONB, 0) \cup ErrResults({"500"}) :
         /\ lastOp' = QueryOp("OnboardingsResolve", ONB, res)
         /\ IF res.code # ""
           THEN FetchCatch(res.message) /\ onboardData' = onboardData
           ELSE onboardData' = res.data /\ pc' = "activities"
                /\ UNCHANGED <<error, loading>>
    /\ UNCHANGED <<life, route, isMounted, session, user, colls, empData,
                   appsData, channel, closeCalled, refreshPending,
                   nEvents, lastEv>>
    /\ UNCHANGED aux

\* a fetchAll step that ignores every activity_logs error
ActErrNeverThrows(code) == FALSE

\* if (actErr && actErr.code !== "PGRST116") throw actErr
ActErrThrows(code) == code # "" /\ code # "PGRST116"

\* the activity_logs query settles; PGRST116 is ignored; then the
\* isMounted check and the assignment of the four collections
ActivitiesResolve ==
    /\ pc = "activities"
    /\ \E res \in OkResults(ACT, InitialActivityLimit)
                  \cup ErrResults({"500", "PGRST116"}) :
         /\ lastOp' = QueryOp("ActivitiesResolve", ACT, res)
         /\ IF ActErrThrows(res.code)
           THEN /\ FetchCatch(res.message)
                /\ UNCHANGED <<colls, lastEv>>
           ELSE IF ~isMounted
             THEN /\ pc' = "discarded"
                  /\ UNCHANGED <<colls, error, loading, lastEv>>
             ELSE /\ employees' = empData
                  /\ apps' = appsData
                  /\ onboardings' = onboardData
                  /\ activities' = OrEmpty(res)
                  /\ error' = ""
                  /\ loading' = FinallyLoading
                  /\ pc' = "assigned"
                  /\ lastEv' = [t \in Tables |-> NoEvents]
    /\ UNCHANGED <<life, route, isMounted, session, user, empData, appsData,
                   onboardData, channel, closeCalled, refreshPending,
                   nEvents>>
    /\ UNCHANGED aux

----------------------------------------------------------------------------
(* Realtime subscriptions: the postgres_changes callbacks.  A callback     *)
(* runs whenever its channel delivers an event; it checks nothing else.    *)

Coll(t) ==
    CASE t = EMP -> employees
      [] t = APPS -> apps
      [] t = ONB -> onboardings
      [] OTHER -> activities

CollNext(t) ==
    CASE t = EMP -> employees'
      [] t = APPS -> apps'
      [] t = ONB -> onboardings'
      [] OTHER -> activities'

\* a channel delivers until it is closed; a close that failed (unsubscribe
\* threw or rejected) leaves it open
Delivers(t) == channel[t] = "open"

Delivered(t, ev) ==
    /\ nEvents' = nEvents + 1
    /\ lastOp' = ChangeOp(t, ev, HasKey(Coll(t), ev.id))
    /\ lastEv' = [lastEv EXCEPT ![t][ev.id] = ev]

OnEmployeesChange(ev) ==
    /\ Delivers(EMP)
    /\ employees' = Reconcile(employees, ev.kind, NewRow(EMP, ev), ev.id)
    /\ Delivered(EMP, ev)
    /\ UNCHANGED <<life, route, isMounted, pc, session, user, apps,
                   onboardings, activities, loading, error, empData,
                   appsData, onboardData, channel, closeCalled,
                   refreshPending>>
    /\ UNCHANGED aux

OnAppsChange(ev) ==
    /\ Delivers(APPS)
    /\ apps' = Reconcile(apps, ev.kind, NewRow(APPS, ev), ev.id)
    /\ Delivered(APPS, ev)
    /\ UNCHANGED <<life, route, isMounted, pc, session, user, employees,
                   onboardings, activities, loading, error, empData,
                   appsData, onboardData, channel, closeCalled,
                   refreshPending>>
    /\ UNCHANGED aux

\* also prepends a synthetic activity entry when progress reaches 100
\* now: what Date.now() returns when the callback runs
OnOnboardingsChange(ev, now) ==
    /\ Delivers(ONB)
    /\ onboardings' = Reconcile(onboardings, ev.kind, NewRow(ONB, ev), ev.id)
    /\ activities' = WithSynthetic(activities, ev, now)
    /\ Delivered(ONB, ev)
    /\ UNCHANGED <<life, route, isMounted, pc, session, user, employees,
                   apps, loading, error, empData, appsData, onboardData,
                   channel, closeCalled, refreshPending>>
    /\ UNCHANGED aux

OnActivityChange(ev) ==
    /\ Delivers(ACT)
    /\ activities' =
           ReconcileActivities(activities, ev.kind, NewRow(ACT, ev), ev.id)
    /\ Delivered(ACT, ev)
    /\ UNCHANGED <<life, route, isMounted, pc, session, user, employees,
                   apps, onboardings, loading, error, empData, appsData,
                   onboardData, channel, closeCalled, refreshPending>>
    /\ UNCHANGED aux

----------------------------------------------------------------------------
(* handleRefresh: bound to the Retry and Refresh buttons, which are        *)
(* rendered only when loading is false.                                    *)

\* the queries of one refresh that resolve with an error: none or one
RefreshFailures == {{}} \cup {{t} : t \in Tables}

\* a refresh that leaves the activity_logs query out
RefreshResultsSkipActivity(t, limit, failed) ==
    IF t \in failed \/ t = ACT
      THEN [data : {<<>>}, isNull : {TRUE}, code : {"500"},
            message : {"query failed"}]
      ELSE OkResults(t, limit)

\* what the four queries of handleRefresh resolve with
RefreshResults(t, limit, failed) ==
    IF t \in failed
      THEN [data : {<<>>}, isNull : {TRUE}, code : {"500"},
            message : {"query failed"}]
      ELSE OkResults(t, limit)

RefreshStart ==
    /\ life = "mounted"
    /\ ~loading
    /\ ~refreshPending
    /\ loading' = TRUE
    /\ error' = ""
    /\ refreshPending' = TRUE
    /\ lastOp' = Op("RefreshStart")
    /\ UNCHANGED <<life, route, isMounted, pc, session, user, colls, empData,
                   appsData, onboardData, channel, closeCalled, nEvents,
                   lastEv>>
    /\ UNCHANGED aux

\* Promise.all fulfils: the four data fields are assigned, errors ignored
RefreshFulfilled ==
    /\ refreshPending
    /\ \E failed \in RefreshFailures :
         \E re \in RefreshResults(EMP, 0, failed),
            ra \in RefreshResults(APPS, 0, failed),
            ro \in RefreshResults(ONB, 0, failed),
            rc \in RefreshResults(ACT, RefreshActivityLimit, failed) :
           /\ employees' = OrEmpty(re)
           /\ apps' = OrEmpty(ra)
           /\ onboardings' = OrEmpty(ro)
           /\ activities' = OrEmpty(rc)
           /\ lastOp' = [Op("RefreshFulfilled") EXCEPT !.rejected = failed]
    /\ loading' = FALSE
    /\ refreshPending' = FALSE
    /\ lastEv' = [t \in Tables |-> NoEvents]
    /\ UNCHANGED <<life, route, isMounted, pc, session, user, error, empData,
                   appsData, onboardData, channel, closeCalled, nEvents>>
    /\ UNCHANGED aux

\* Promise.all rejects: setError(err.message || "Refresh failed")
RefreshRejected ==
    /\ refreshPending
    /\ \E msg \in {"", "network down"} :
         error' = MessageOr(msg, "Refresh failed")
    /\ loading' = FALSE
    /\ refreshPending' = FALSE
    /\ lastOp' = Op("RefreshRejected")
    /\ UNCHANGED <<life, route, isMounted, pc, session, user, colls, empData,
                   appsData, onboardData, channel, closeCalled, nEvents, lastEv>>
    /\ UNCHANGED aux

----------------------------------------------------------------------------
(* Unmount: the cleanups of both effects run *)

CloseOutcomes == {"ok", "throw", "reject"}

CloseOutcomeMaps ==
    {o \in [Tables -> CloseOutcomes] :
        Cardinality({t \in Tables : o[t] # "ok"}) <= MaxCloseFailures}

\* channels.forEach((ch) => { try { ch.unsubscribe().catch(() => {}) } catch {} })
\* yields the channels on which unsubscribe() was invoked
\* a cleanup without the try/catch: a synchronous throw ends the forEach
RECURSIVE CleanupFromNoTry(_, _)
CleanupFromNoTry(i, outcome) ==
    IF i > Len(ChannelOrder) THEN {}
    ELSE LET ch == ChannelOrder[i]
         IN  IF outcome[ch] = "throw" THEN {ch}
             ELSE {ch} \cup CleanupFromNoTry(i + 1, outcome)

RECURSIVE CleanupFrom(_, _)
CleanupFrom(i, outcome) ==
    IF i > Len(ChannelOrder) THEN {}
    ELSE LET ch == ChannelOrder[i]
             rest == CleanupFrom(i + 1, outcome)
         IN  CASE outcome[ch] = "throw"  -> {ch} \cup rest   \* catch {}
               [] outcome[ch] = "reject" -> {ch} \cup rest   \* .catch(() => {})
               [] OTHER                  -> {ch} \cup rest

Unmount ==
    /\ life = "mounted"
    /\ life' = "unmounted"
    /\ isMounted' = FALSE
    /\ \E outcome \in CloseOutcomeMaps :
         LET called == CleanupFrom(1, outcome) IN
         /\ closeCalled' = called
         /\ channel' = [t \in Tables |->
                          IF t \in called /\ outcome[t] = "ok"
                            THEN "closed" ELSE channel[t]]
         /\ lastOp' = UnmountOp(outcome)
    /\ UNCHANGED <<route, pc, session, user, colls, loading, error, empData,
                   appsData, onboardData, refreshPending, nEvents,
                   lastEv>>
    /\ UNCHANGED aux

----------------------------------------------------------------------------
(* The backend delivers a bounded number of change events, here for the   *)
(* row that the snapshots hold                                             *)
LoadEvents(t) == {ev \in Events(t) : ev.id = LoadKey}

DeliverEmployees ==
    nEvents < MaxEvents /\ \E ev \in LoadEvents(EMP) : OnEmployeesChange(ev)
DeliverApps ==
    nEvents < MaxEvents /\ \E ev \in LoadEvents(APPS) : OnAppsChange(ev)
DeliverOnboardings ==
    nEvents < MaxEvents
    /\ \E ev \in LoadEvents(ONB) : OnOnboardingsChange(ev, LoadNow)
DeliverActivity ==
    nEvents < MaxEvents /\ \E ev \in LoadEvents(ACT) : OnActivityChange(ev)

Next ==
    \/ Mount
    \/ GetUserThrows
    \/ GetUserNone
    \/ GetUserPresent
    \/ EmployeesResolve
    \/ AppsResolve
    \/ OnboardingsResolve
    \/ ActivitiesResolve
    \/ DeliverEmployees
    \/ DeliverApps
    \/ DeliverOnboardings
    \/ DeliverActivity
    \/ RefreshStart
    \/ RefreshFulfilled
    \/ RefreshRejected
    \/ Unmount

Spec == Init /\ [][Next]_vars

----------------------------------------------------------------------------
(* The reducers under longer event streams: the dashboard is mounted, the  *)
(* session query is still pending and the channels deliver events.         *)
StreamEmployees ==
    nEvents < MaxReconcileEvents /\ \E ev \in Events(EMP) : OnEmployeesChange(ev)
StreamApps ==
    nEvents < MaxReconcileEvents /\ \E ev \in Events(APPS) : OnAppsChange(ev)
StreamOnboardings ==
    nEvents < MaxReconcileEvents
    /\ \E ev \in Events(ONB), now \in Nows : OnOnboardingsChange(ev, now)
StreamActivity ==
    nEvents < MaxReconcileEvents /\ \E ev \in Events(ACT) : OnActivityChange(ev)

NextReconcile ==
    \/ Mount
    \/ StreamEmployees
    \/ StreamApps
    \/ StreamOnboardings
    \/ StreamActivity

SpecReconcile == Init /\ [][NextReconcile]_vars

----------------------------------------------------------------------------
(* The theme preference *)

\* what the program itself leaves under the key: nothing, "dark" or "light"
StoredThemes == {NoItem, "dark", "light"}

\* a toggle that always selects the dark theme
FlipThemeStuck(t) == "dark"

\* (t) => (t === "dark" ? "light" : "dark")
FlipTheme(t) == IF t = "dark" THEN "light" ELSE "dark"

\* the Toggle theme button of the main view, then the theme effect;
\* lastOp keeps the theme the toggle started from
ToggleTheme ==
    /\ life = "mounted"
    /\ ~loading
    /\ error = ""
    /\ theme' = FlipTheme(theme)
    /\ storedTheme' = theme'
    /\ lastOp' = [Op("ToggleTheme") EXCEPT !.kind = theme]
    /\ UNCHANGED <<life, route, isMounted, pc, session, user, colls, loading,
                   error, empData, appsData, onboardData, channel,
                   closeCalled, refreshPending, nEvents, lastEv, offPage>>

\* the dashboard page with whatever preference an earlier visit stored
InitView ==
    /\ DashboardInit
    /\ storedTheme \in StoredThemes
    /\ theme = InitialTheme(storedTheme)
    /\ DerivedInit
    /\ view = "Dashboard"
    /\ LoginInit

\* the dashboard's lifecycle and buttons, without change events
NextView ==
    \/ Mount
    \/ GetUserThrows
    \/ GetUserNone
    \/ GetUserPresent
    \/ EmployeesResolve
    \/ AppsResolve
    \/ OnboardingsResolve
    \/ ActivitiesResolve
    \/ RefreshStart
    \/ RefreshFulfilled
    \/ RefreshRejected
    \/ ToggleTheme
    \/ Unmount

SpecView == InitView /\ [][NextView]_vars

\* every backend request eventually resolves or rejects: the continuation
\* of each await of fetchAll and of handleRefresh eventually runs.  Nothing
\* is assumed of the user's clicks, nor of mounting and unmounting.
RequestsSettle ==
    /\ WF_vars(GetUserThrows \/ GetUserNone \/ GetUserPresent)
    /\ WF_vars(EmployeesResolve)
    /\ WF_vars(AppsResolve)
    /\ WF_vars(OnboardingsResolve)
    /\ WF_vars(ActivitiesResolve)
    /\ WF_vars(RefreshFulfilled \/ RefreshRejected)

SpecSettling == Init /\ [][NextView]_vars /\ RequestsSettle

----------------------------------------------------------------------------
(* App and the login form *)

Paths == {"/login", "/dashboard", "/", "/settings"}
Emails == {"", "a@x.io"}
Passwords == {"", "secret"}
AuthErrors == {"Invalid login credentials", "User already registered"}

\* what signInWithPassword / signUp settle with: success, or an error
\* (returned or thrown) with its message
AuthOutcomes ==
    {[ok |-> TRUE, message |-> ""]} \cup [ok : {FALSE}, message : AuthErrors]

VisitOp(path) == [Op("Visit") EXCEPT !.msg = path]
AuthOp(mode, outcome) ==
    [Op("AuthSettles") EXCEPT !.kind = mode, !.hit = outcome.ok,
                              !.msg = outcome.message]

\* the location changes to path (a link, the address bar); entering the
\* login page mounts a fresh Login
Visit(path) ==
    /\ route' = Redirect(path)
    /\ view' = Element(route')
    /\ IF view # "Login" /\ view' = "Login"
         THEN /\ email' = ""
              /\ password' = ""
              /\ isLogin' = TRUE
              /\ message' = ""
              /\ pending' = <<>>
         ELSE UNCHANGED loginVars
    /\ lastOp' = VisitOp(path)
    /\ UNCHANGED <<life, isMounted, pc, session, user, colls, loading, error,
                   empData, appsData, onboardData, channel, closeCalled,
                   refreshPending, nEvents, lastEv, themeVars, derived>>

\* onChange of the email input
TypeEmail(v) ==
    /\ view = "Login"
    /\ email' = v
    /\ lastOp' = Op("TypeEmail")
    /\ UNCHANGED <<life, route, isMounted, pc, session, user, colls, loading,
                   error, empData, appsData, onboardData, channel,
                   closeCalled, refreshPending, nEvents, lastEv, themeVars,
                   derived, view, password, isLogin, message, pending>>

\* onChange of the password input
TypePassword(v) ==
    /\ view = "Login"
    /\ password' = v
    /\ lastOp' = Op("TypePassword")
    /\ UNCHANGED <<life, route, isMounted, pc, session, user, colls, loading,
                   error, empData, appsData, onboardData, channel,
                   closeCalled, refreshPending, nEvents, lastEv, themeVars,
                   derived, view, email, isLogin, message, pending>>

\* setIsLogin(!isLogin)
ToggleMode ==
    /\ view = "Login"
    /\ isLogin' = ~isLogin
    /\ lastOp' = Op("ToggleMode")
    /\ UNCHANGED <<life, route, isMounted, pc, session, user, colls, loading,
                   error, empData, appsData, onboardData, channel,
                   closeCalled, refreshPending, nEvents, lastEv, themeVars,
                   derived, view, email, password, message, pending>>

\* handleAuth up to its await: both inputs are required; the mode is read
\* before the call
SubmitAuth ==
    /\ view = "Login"
    /\ email # ""
    /\ password # ""
    /\ Len(pending) < MaxPending
    /\ message' = ""
    /\ pending' = Append(pending, IF isLogin THEN "signIn" ELSE "signUp")
    /\ lastOp' = Op("SubmitAuth")
    /\ UNCHANGED <<life, route, isMounted, pc, session, user, colls, loading,
                   error, empData, appsData, onboardData, channel,
                   closeCalled, refreshPending, nEvents, lastEv, themeVars,
                   derived, view, email, password, isLogin>>

\* a handleAuth that reports success whatever the service answered
AuthMessageIgnoresError(mode, outcome) ==
    IF mode = "signIn" THEN "Login successful!"
    ELSE "Account created! You can now log in."

\* if (error) throw error; setMessage(...) / catch (err) setMessage(err.message)
AuthMessage(mode, outcome) ==
    IF ~outcome.ok THEN outcome.message
    ELSE IF mode = "signIn" THEN "Login successful!"
    ELSE "Account created! You can now log in."

\* a handleAuth that goes to the dashboard after a successful sign-in
AuthSettlesNavigates ==
    /\ \E i \in 1..Len(pending), outcome \in AuthOutcomes :
          /\ message' = AuthMessage(pending[i], outcome)
          /\ pending' = SubSeq(pending, 1, i - 1)
                            \o SubSeq(pending, i + 1, Len(pending))
          /\ lastOp' = AuthOp(pending[i], outcome)
          /\ IF outcome.ok /\ pending[i] = "signIn"
               THEN route' = "/dashboard" /\ view' = Element(route')
               ELSE UNCHANGED <<route, view>>
    /\ UNCHANGED <<life, isMounted, pc, session, user, colls, loading,
                   error, empData, appsData, onboardData, channel,
                   closeCalled, refreshPending, nEvents, lastEv, themeVars,
                   derived, email, password, isLogin>>

\* handleAuth after its await: one of the calls in flight settles
AuthSettles ==
    /\ \E i \in 1..Len(pending), outcome \in AuthOutcomes :
          /\ message' = AuthMessage(pending[i], outcome)
          /\ pending' = SubSeq(pending, 1, i - 1)
                            \o SubSeq(pending, i + 1, Len(pending))
          /\ lastOp' = AuthOp(pending[i], outcome)
    /\ UNCHANGED <<life, route, isMounted, pc, session, user, colls, loading,
                   error, empData, appsData, onboardData, channel,
                   closeCalled, refreshPending, nEvents, lastEv, themeVars,
                   derived, view, email, password, isLogin>>

\* the pages and the login form; the dashboard is mounted and unmounted,
\* its handlers are the subject of Spec
NextApp ==
    \/ \E path \in Paths : Visit(path)
    \/ Mount
    \/ Unmount
    \/ \E v \in Emails : TypeEmail(v)
    \/ \E v \in Passwords : TypePassword(v)
    \/ ToggleMode
    \/ SubmitAuth
    \/ AuthSettles

SpecApp == Init /\ [][NextApp]_vars

----------------------------------------------------------------------------
(* The derived values. Each is computed from the collections the page    *)
(* holds once it is loaded; its specification starts from a loaded page  *)
(* whose collections are drawn from bounded sets of records.             *)

\* the page after a successful initial load that assigned these collections
LoadedWith(emp, ap, onb, act) ==
    /\ life = "mounted"
    /\ route = "/dashboard"
    /\ isMounted = TRUE
    /\ pc = "assigned"
    /\ session = "present"
    /\ user = TheUser
    /\ employees = emp
    /\ apps = ap
    /\ onboardings = onb
    /\ activities = act
    /\ loading = FALSE
    /\ error = ""
    /\ empData = emp
    /\ appsData = ap
    /\ onboardData = onb
    /\ channel = [t \in Tables |-> "open"]
    /\ closeCalled = {}
    /\ refreshPending = FALSE
    /\ nEvents = 0
    /\ lastOp = Op("ActivitiesResolve")
    /\ lastEv = [t \in Tables |-> NoEvents]
    /\ theme = "dark"
    /\ storedTheme = "dark"
    /\ view = "Dashboard"
    /\ LoginInit

\* onboarding records with and without a progress field
OnboardingInputs(most) ==
    UNION {{[i \in 1..n |-> IF i \in absent
                              THEN [id |-> i]
                              ELSE [id |-> i, progress |-> f[i]]] :
               f \in [1..n -> ProgressSamples], absent \in SUBSET (1..n)} :
           n \in 0..most}

\* o.progress || 0
ProgressOr0(o) == IF "progress" \in DOMAIN o THEN o.progress ELSE 0

\* onboardings.reduce((s, o) => s + (o.progress || 0), 0)
RECURSIVE SumProgress(_)
SumProgress(onb) ==
    IF onb = <<>> THEN 0
    ELSE SumProgress(SubSeq(onb, 1, Len(onb) - 1)) + ProgressOr0(onb[Len(onb)])

\* a rounding that truncates
MathFloor(num, den) == num \div den

\* Math.round(num / den) for num >= 0, den > 0: the nearest integer, a half
\* going up
MathRound(num, den) == (2 * num + den) \div (2 * den)

\* stats.adoptionAvg
AdoptionAvg(onb) ==
    IF Len(onb) = 0 THEN 0 ELSE MathRound(SumProgress(onb), Len(onb))

\* a render of the loaded page computes the stats memo
RenderStats ==
    /\ life = "mounted"
    /\ adoptionAvg' = AdoptionAvg(onboardings)
    /\ lastOp' = Op("RenderStats")
    /\ UNCHANGED <<life, route, isMounted, pc, session, user, colls, loading,
                   error, empData, appsData, onboardData, channel,
                   closeCalled, refreshPending, nEvents, lastEv, themeVars,
                   chartData, clock, exported, view, loginVars>>

InitStats ==
    /\ \E onb \in OnboardingInputs(MaxOnboardings) : LoadedWith(<<>>, <<>>, onb, <<>>)
    /\ DerivedInit

NextStats == RenderStats

SpecStats == InitStats /\ [][NextStats]_vars

----------------------------------------------------------------------------
(* chartData. Time is counted in hours from 00:00 UTC of day 0; a        *)
(* timestamp is a date (a day number) and a time of day, as its text is  *)
(* a date portion of ten characters followed by the rest.                *)

\* a zone without daylight saving, one whose clocks go forward at
\* Transition and one whose clocks go back
Zones ==
    {FixedZone, [before |-> 1, after |-> 2], [before |-> 2, after |-> 1]}

\* the hours at which chartData is computed
ClockHours == {Today * 24, Today * 24 + 12, Today * 24 + 23}

\* LocalTime(t): t shifted by the offset in force at t
LocalTime(u, z) == u + (IF u < Transition THEN z.before ELSE z.after)

\* UTC(t): the hour a local time stands for; a local time that is skipped
\* or repeated at the change is read with the offset before the change
UTC(w, z) ==
    IF w - z.before < Transition THEN w - z.before
    ELSE IF w - z.after >= Transition THEN w - z.after
    ELSE w - z.before

\* d.setDate(d.getDate() - i): the same local time of day i local days back
SetDateBack(u, i, z) == UTC(LocalTime(u, z) - 24 * i, z)

\* d.toISOString().slice(0, 10): the UTC date
IsoDate(u) == u \div 24

\* timestamp.slice(0, 10)
DatePortion(ts) == ts.date

\* the keys in the order the loop writes them, i = days - 1 down to 0
LoopKeys(c) ==
    [j \in 1..ChartDays |->
        IsoDate(SetDateBack(c.now, ChartDays - j, c.zone))]

\* the keys of map in insertion order: writing a key again keeps its place
RECURSIVE InsertionOrder(_)
InsertionOrder(ks) ==
    IF ks = <<>> THEN <<>>
    ELSE LET front == InsertionOrder(SubSeq(ks, 1, Len(ks) - 1))
             k == ks[Len(ks)]
         IN  IF \E n \in 1..Len(front) : front[n] = k
               THEN front
               ELSE Append(front, k)

\* the number of records counted under key: those with the timestamp field
\* whose date portion is key
Counted(rows, field, key) ==
    Cardinality({n \in 1..Len(rows) :
                    /\ field \in DOMAIN rows[n]
                    /\ DatePortion(rows[n][field]) = key})

\* Object.values(map)
ChartData(emp, onb, c) ==
    LET keys == InsertionOrder(LoopKeys(c))
    IN  [n \in 1..Len(keys) |->
            [date |-> keys[n],
             employees |-> Counted(emp, "created_at", keys[n]),
             onboardings |-> Counted(onb, "started_at", keys[n])]]

\* records with the timestamp field on one of the sample days, or without
\* the field
StampedInputs(field) ==
    UNION {{[i \in 1..n |->
                IF i \in absent
                  THEN [id |-> i]
                  ELSE [id |-> i] @@ (field :> [date |-> f[i], time |-> 9])] :
               f \in [1..n -> DaySamples], absent \in SUBSET (1..n)} :
           n \in 0..MaxChartRecords}

\* a render of the loaded page computes the chartData memo
RenderChart ==
    /\ life = "mounted"
    /\ chartData' = ChartData(employees, onboardings, clock)
    /\ lastOp' = Op("RenderChart")
    /\ UNCHANGED <<life, route, isMounted, pc, session, user, colls, loading,
                   error, empData, appsData, onboardData, channel,
                   closeCalled, refreshPending, nEvents, lastEv, themeVars,
                   adoptionAvg, clock, exported, view, loginVars>>

InitChart ==
    /\ \E emp \in StampedInputs("created_at"),
          onb \in StampedInputs("started_at") :
            LoadedWith(emp, <<>>, onb, <<>>)
    /\ clock \in [now : ClockHours, zone : Zones]
    /\ adoptionAvg = 0
    /\ chartData = <<>>
    /\ exported = <<>>

NextChart == RenderChart

SpecChart == InitChart /\ [][NextChart]_vars

----------------------------------------------------------------------------
(* CSV export. A text is a sequence of tokens: a token is one character, *)
(* or a word that holds no quote (a field name, "true").                 *)

Quote == "\""
Comma == ","
NewLine == "\n"

\* the characters of a decimal digit
Digit(d) == <<"0", "1", "2", "3", "4", "5", "6", "7", "8", "9">>[d + 1]

\* String(n) of a natural number
RECURSIVE DigitsOf(_)
DigitsOf(n) ==
    IF n < 10 THEN <<Digit(n)>> ELSE DigitsOf(n \div 10) \o <<Digit(n % 10)>>

NumberFields == {"id", "employee_id", "template_id", "progress"}
BooleanFields == {"completed"}

\* String(r[k]): numbers and booleans are written out, a text is itself
StringOf(k, v) ==
    IF k \in NumberFields THEN DigitsOf(v)
    ELSE IF k \in BooleanFields THEN (IF v THEN <<"true">> ELSE <<"false">>)
    ELSE v

\* a property of an object literal: key: o.key (undefined when o lacks it)
Property(k, o) ==
    IF k \in DOMAIN o
      THEN [key |-> k, has |-> TRUE, val |-> o[k]]
      ELSE [key |-> k, has |-> FALSE, val |-> <<>>]

\* key: o.key || ""
PropertyOrEmpty(k, o) ==
    [key |-> k, has |-> TRUE, val |-> IF k \in DOMAIN o THEN o[k] ELSE <<>>]

\* Object.keys(row)
ObjectKeys(row) == [i \in 1..Len(row) |-> row[i].key]

\* r[k] == null ? "" : String(r[k])
ValueText(row, k) ==
    IF \E i \in 1..Len(row) : row[i].key = k /\ row[i].has
      THEN LET i == CHOOSE j \in 1..Len(row) : row[j].key = k /\ row[j].has
           IN  StringOf(k, row[i].val)
      ELSE <<>>

\* a replace without the g flag: only the first quote is doubled
RECURSIVE ReplaceFirstQuote(_)
ReplaceFirstQuote(text) ==
    IF text = <<>> THEN <<>>
    ELSE IF Head(text) = Quote THEN <<Quote, Quote>> \o Tail(text)
    ELSE <<Head(text)>> \o ReplaceFirstQuote(Tail(text))

\* val.replace(/"/g, '""')
RECURSIVE ReplaceQuotes(_)
ReplaceQuotes(text) ==
    IF text = <<>> THEN <<>>
    ELSE (IF Head(text) = Quote THEN <<Quote, Quote>> ELSE <<Head(text)>>)
         \o ReplaceQuotes(Tail(text))

\* `"${...}"`
Quoted(text) == <<Quote>> \o ReplaceQuotes(text) \o <<Quote>>

\* parts.join(sep)
RECURSIVE Join(_, _)
Join(parts, sep) ==
    IF parts = <<>> THEN <<>>
    ELSE IF Len(parts) = 1 THEN parts[1]
    ELSE parts[1] \o <<sep>> \o Join(Tail(parts), sep)

\* csvFromArray(rows)
CsvFromArray(rows) ==
    IF Len(rows) = 0 THEN <<>>
    ELSE LET keys == ObjectKeys(rows[1])
             header == Join([i \in 1..Len(keys) |-> <<keys[i]>>], Comma)
             line(r) ==
                 Join([i \in 1..Len(keys) |-> Quoted(ValueText(r, keys[i]))],
                      Comma)
         IN  Join(<<header>> \o [n \in 1..Len(rows) |-> line(rows[n])],
                  NewLine)

\* employees.map((e) => ({ id, full_name || "", email || "", created_at || "" }))
EmployeeRows(emp) ==
    [n \in 1..Len(emp) |->
        <<Property("id", emp[n]),
          PropertyOrEmpty("full_name", emp[n]),
          PropertyOrEmpty("email", emp[n]),
          PropertyOrEmpty("created_at", emp[n])>>]

\* onboardings.map((o) => ({ id, employee_id, template_id, progress,
\*                           started_at, completed }))
OnboardingRows(onb) ==
    [n \in 1..Len(onb) |->
        <<Property("id", onb[n]),
          Property("employee_id", onb[n]),
          Property("template_id", onb[n]),
          Property("progress", onb[n]),
          Property("started_at", onb[n]),
          Property("completed", onb[n])>>]

\* the main view is on screen: neither the loading screen nor the error panel
MainView == life = "mounted" /\ ~loading /\ error = ""

\* the Export Employees button
ExportEmployees ==
    /\ MainView
    /\ exported' = CsvFromArray(EmployeeRows(employees))
    /\ lastOp' = Op("ExportEmployees")
    /\ UNCHANGED <<life, route, isMounted, pc, session, user, colls, loading,
                   error, empData, appsData, onboardData, channel,
                   closeCalled, refreshPending, nEvents, lastEv, themeVars,
                   adoptionAvg, chartData, clock, view, loginVars>>

\* the Export Onboardings button
ExportOnboardings ==
    /\ MainView
    /\ exported' = CsvFromArray(OnboardingRows(onboardings))
    /\ lastOp' = Op("ExportOnboardings")
    /\ UNCHANGED <<life, route, isMounted, pc, session, user, colls, loading,
                   error, empData, appsData, onboardData, channel,
                   closeCalled, refreshPending, nEvents, lastEv, themeVars,
                   adoptionAvg, chartData, clock, view, loginVars>>

\* texts of up to MaxTextLen characters, quotes among them
RECURSIVE TextsUpTo(_)
TextsUpTo(n) ==
    IF n = 0 THEN {<<>>}
    ELSE LET shorter == TextsUpTo(n - 1)
         IN  shorter \cup {Append(t, c) : t \in shorter, c \in Chars}

\* a function as a record: the fields of f outside drop are kept
Keep(f, drop) == [k \in DOMAIN f \ drop |-> f[k]]

\* employee records: full_name may be missing, and so may every email
EmployeeCsvInputs(most) ==
    UNION {{[i \in 1..n |->
                Keep([id |-> i, full_name |-> name[i], email |-> <<"e">>],
                     (IF i \in noName THEN {"full_name"} ELSE {})
                        \cup (IF i \in noMail THEN {"email"} ELSE {}))] :
               name \in [1..n -> TextsUpTo(MaxTextLen)],
               noName \in SUBSET (1..n), noMail \in {{}, 1..n}} :
           n \in 0..most}

\* onboarding records: progress and completed may be missing
OnboardingCsvInputs(most) ==
    UNION {{[i \in 1..n |->
                Keep([id |-> i, employee_id |-> 7, progress |-> 50,
                      completed |-> TRUE],
                     (IF i \in noProgress THEN {"progress"} ELSE {})
                        \cup (IF i \in noFlag THEN {"completed"} ELSE {}))] :
               noProgress \in SUBSET (1..n), noFlag \in SUBSET (1..n)} :
           n \in 0..most}

\* a loaded page holding employees to export, or onboardings
InitCsv ==
    /\ \/ \E emp \in EmployeeCsvInputs(MaxCsvRows) :
             LoadedWith(emp, <<>>, <<>>, <<>>)
       \/ \E onb \in OnboardingCsvInputs(MaxCsvRows) :
             LoadedWith(<<>>, <<>>, onb, <<>>)
    /\ DerivedInit

NextCsv == ExportEmployees \/ ExportOnboardings

SpecCsv == InitCsv /\ [][NextCsv]_vars

----------------------------------------------------------------------------
(* Properties *)

UniqueKeys(s) == \A i, j \in 1..Len(s) : s[i].id = s[j].id => i = j

RECURSIVE Without(_, _)
Without(s, k) ==
    IF s = <<>> THEN <<>>
    ELSE IF Head(s).id = k THEN Without(Tail(s), k)
         ELSE <<Head(s)>> \o Without(Tail(s), k)

Contains(s, r) == \E i \in 1..Len(s) : s[i] = r

IsChange(op, t, kind) == op.op = "Change" /\ op.table = t /\ op.kind = kind

RowOf(op) == NewRow(op.table, [kind |-> op.kind, id |-> op.id, val |-> op.val])

\* C1: in every reachable state each of the four collections holds at most
\* one record per key, whatever events its subscription delivered, a
\* redelivered Insert included.
C1_OneRecordPerKey == \A t \in Tables : UniqueKeys(Coll(t))

\* C2: for every collection and key that has seen an event, the collection
\* holds a record for the key exactly when the last event seen for the key is
\* not a Delete, and every such record is the one carried by that event.
C2_LastEventWins ==
    \A t \in Tables : \A k \in Keys :
        LET e == lastEv[t][k] IN
        e.kind # "" =>
            /\ HasKey(Coll(t), k) <=> e.kind # "DELETE"
            /\ \A i \in 1..Len(Coll(t)) :
                   Coll(t)[i].id = k => Coll(t)[i] = NewRow(t, e)

\* C3: after an Update event whose key was absent from its collection, the
\* collection contains the event's record (Insert semantics), for each of
\* the four collections.
C3_UpdateAbsentInserts ==
    \A t \in Tables :
        (IsChange(lastOp, t, "UPDATE") /\ ~lastOp.hit)
            => Contains(Coll(t), RowOf(lastOp))

\* C4: a Delete event removes every record with the event's key and nothing
\* else: the remaining records keep their relative order, and when the key
\* is absent the collection is unchanged.
C4_DeleteRemovesOnlyKey ==
    [][\A t \in Tables :
          IsChange(lastOp', t, "DELETE") =>
              /\ CollNext(t) = Without(Coll(t), lastOp'.id)
              /\ ~HasKey(CollNext(t), lastOp'.id)
              /\ ~HasKey(Coll(t), lastOp'.id) => CollNext(t) = Coll(t)]_vars

\* C4 witness: a Delete hit a key of the employees collection, which had a
\* duplicate of it, and two other records remain.
C4_Witness ==
    /\ IsChange(lastOp, EMP, "DELETE")
    /\ lastOp.hit
    /\ Len(employees) >= 2
    /\ ~HasKey(employees, lastOp.id)

\* C5: while the dashboard is mounted the activities collection holds at
\* most 100 entries, whatever events were delivered on the four
\* subscriptions, synthesized completion entries included.
C5_ActivitiesBounded == life = "mounted" => Len(activities) <= ActivityCap

\* C6: after the dashboard has been unmounted, no change event delivered on
\* any of the four subscriptions mutates any of the four collections.
C6_NoMutationAfterUnmount ==
    [][(life = "unmounted" /\ lastOp'.op = "Change") => UNCHANGED colls]_vars

FetchOps ==
    {"GetUserThrows", "GetUserNone", "GetUserPresent", "EmployeesResolve",
     "AppsResolve", "OnboardingsResolve", "ActivitiesResolve",
     "RefreshFulfilled", "RefreshRejected"}

\* C7: a session-query or collection-fetch result (success or failure) that
\* arrives after unmount is discarded: it writes none of user, the four
\* collections, error and loading, in the initial load and in a refresh.
C7_LateResultsDiscarded ==
    [][(life = "unmounted" /\ lastOp'.op \in FetchOps)
          => UNCHANGED <<user, colls, error, loading>>]_vars

\* C8: on unmount, unsubscribe is invoked on every one of the four channels
\* opened at mount; a close that throws or rejects neither keeps the
\* remaining channels from being closed nor changes the error state.
C8_CleanupClosesAll ==
    [][(life = "mounted" /\ life' = "unmounted") =>
          /\ closeCalled' = {t \in Tables : channel[t] = "open"}
          /\ closeCalled' = Tables
          /\ error' = error]_vars

\* C8 witness: the dashboard was unmounted, the first channel's unsubscribe
\* threw, and the three channels after it were still closed.
C8_Witness ==
    /\ life = "unmounted"
    /\ lastOp.op = "Unmount"
    /\ lastOp.threw = {EMP}
    /\ channel[EMP] = "open"
    /\ closeCalled = Tables
    /\ \A t \in Tables \ {EMP} : channel[t] = "closed"

\* C9: when the session query reports no identity the dashboard navigates to
\* /login and does nothing else: no collection fetch is issued, no change
\* subscription is open, user stays null and the four collections stay empty.
C9_NoSessionNoFurtherAction ==
    session = "none" =>
        /\ route = "/login"
        /\ pc = "redirected"
        /\ ~refreshPending
        /\ \A t \in Tables : ~Delivers(t)
        /\ user = NoUser
        /\ \A t \in Tables : Coll(t) = <<>>

InitialFetchDone == {"assigned", "failed", "discarded"}

\* C10: the four change subscriptions are opened only after the session was
\* confirmed present and the initial bulk fetch completed, and no change
\* event is reconciled before the initial fetch result has been assigned.
C10_SubscribeAfterInitialLoad ==
    /\ \A t \in Tables :
          channel[t] # "none" =>
              session = "present" /\ pc \in InitialFetchDone
    /\ lastOp.op = "Change" => pc = "assigned"

InitialQueryOps ==
    {"EmployeesResolve", "AppsResolve", "OnboardingsResolve",
     "ActivitiesResolve"}

C12_QueryErrorSurfaces ==
    (lastOp.op \in InitialQueryOps \cup {"RefreshFulfilled"}
        /\ lastOp.rejected # {})
      => error # ""

\* C13: a change event on table T changes only the collection mirroring T;
\* the other three collections are unchanged by that callback.
C13_OneCollectionPerCallback ==
    [][lastOp'.op = "Change" =>
          \A u \in Tables \ {lastOp'.table} : CollNext(u) = Coll(u)]_vars

\* C13 as amended: a change event on table T changes only the collection
\* mirroring T, except that an Update of employee_onboardings whose progress
\* is 100 also prepends one locally generated entry to activities.
C13_OneCollectionExceptCompletion ==
    [][lastOp'.op = "Change" =>
          \A u \in Tables \ {lastOp'.table} :
              IF /\ lastOp'.table = ONB /\ u = ACT
                 /\ lastOp'.kind = "UPDATE" /\ lastOp'.val = 100
                THEN /\ activities' # <<>>
                     /\ Tail(activities') = activities
                     /\ Head(activities').id > SynthBase
                ELSE CollNext(u) = Coll(u)]_vars

\* C13 witness: an Update of employee_onboardings with progress below 100
\* was reconciled while the other collections held records.
C13_Witness ==
    /\ IsChange(lastOp, ONB, "UPDATE")
    /\ lastOp.val # 100
    /\ lastOp.hit
    /\ employees # <<>>
    /\ activities # <<>>

\* C14: when the session query fails by throwing, the dashboard treats it as
\* no session: it navigates to /login and sets no data-load error.
C14_SessionFailureIsNoSession ==
    lastOp.op = "GetUserThrows" => route = "/login" /\ error = ""

\* C19: once the dashboard has started, and after every theme toggle, the
\* stored preference equals the active theme; a toggle switches the active
\* theme between dark and light, and a second toggle in a row restores the
\* theme the first one started from.
C19_ThemePersistedAndToggled ==
    [][/\ life' # "new" => storedTheme' = theme'
       /\ lastOp'.op = "ToggleTheme" =>
             /\ {theme, theme'} = {"dark", "light"}
             /\ lastOp.op = "ToggleTheme" => theme' = lastOp.kind]_vars

\* C19 witness: a toggle started from the light theme; the dark theme is
\* now active and stored.
C19_Witness ==
    /\ lastOp.op = "ToggleTheme"
    /\ lastOp.kind = "light"
    /\ theme = "dark"
    /\ storedTheme = "dark"

\* the progress a record counts with: its progress, 0 when it has none
CountedProgress(r) == IF "progress" \in DOMAIN r THEN r.progress ELSE 0

RECURSIVE TotalProgress(_)
TotalProgress(s) ==
    IF s = <<>> THEN 0 ELSE CountedProgress(Head(s)) + TotalProgress(Tail(s))

\* C15: the average adoption is 0 for an empty onboarding collection, and
\* otherwise the integer nearest to the mean of the records' progress, a
\* half rounding up; a record without progress counts as 0.
C15_AdoptionAvgIsRoundedMean ==
    lastOp.op = "RenderStats" =>
        LET n == Len(onboardings)
            total == TotalProgress(onboardings)
        IN  IF n = 0
              THEN adoptionAvg = 0
              ELSE /\ 2 * n * adoptionAvg - n <= 2 * total
                   /\ 2 * total < 2 * n * adoptionAvg + n

\* C15 witness: the mean of a collection with a record lacking progress is
\* exactly halfway between two integers and was rounded up.
C15_Witness ==
    /\ lastOp.op = "RenderStats"
    /\ \E i \in 1..Len(onboardings) : "progress" \notin DOMAIN onboardings[i]
    /\ 2 * TotalProgress(onboardings) =
          (2 * adoptionAvg - 1) * Len(onboardings)

\* C16: the chart data has exactly 7 entries, one per calendar day of the
\* window ending today (the clock's date as the keys write it), in order;
\* each entry counts the employees and the onboardings whose timestamp has
\* that date, so a day without records reports 0 and a record without
\* timestamp or outside the window is counted nowhere.
C16_ChartSevenDays ==
    lastOp.op = "RenderChart" =>
        /\ Len(chartData) = 7
        /\ \A n \in 1..Len(chartData) :
              LET day == clock.now \div 24 - 7 + n
              IN  /\ chartData[n].date = day
                  /\ chartData[n].employees =
                        Cardinality({i \in 1..Len(employees) :
                            /\ "created_at" \in DOMAIN employees[i]
                            /\ employees[i].created_at.date = day})
                  /\ chartData[n].onboardings =
                        Cardinality({i \in 1..Len(onboardings) :
                            /\ "started_at" \in DOMAIN onboardings[i]
                            /\ onboardings[i].started_at.date = day})

\* the tokens of ts one after the other
RECURSIVE Concat(_)
Concat(ts) == IF ts = <<>> THEN <<>> ELSE Head(ts) \o Concat(Tail(ts))

\* the texts of parts with sep between neighbours
Separated(parts, sep) ==
    Concat([i \in 1..Len(parts) |->
               IF i = 1 THEN parts[i] ELSE <<sep>> \o parts[i]])

\* a value in double quotes, each of its quotes doubled
Wrapped(text) ==
    <<"\"">> \o Concat([i \in 1..Len(text) |->
                          IF text[i] = "\"" THEN <<"\"", "\"">>
                                            ELSE <<text[i]>>])
             \o <<"\"">>

\* the records handed to the CSV export by the button pressed last
ExportedRecords ==
    IF lastOp.op = "ExportEmployees" THEN EmployeeRows(employees)
                                     ELSE OnboardingRows(onboardings)

\* C17: the CSV of an empty list is the empty text; the CSV of a non-empty
\* list is the first record's field names joined by commas, then one line
\* per record in order holding, for each of those fields, the record's value
\* in double quotes with each embedded quote doubled, a null or absent value
\* as an empty quoted text; lines are joined by newlines.
C17_CsvQuotesEveryValue ==
    lastOp.op \in {"ExportEmployees", "ExportOnboardings"} =>
        LET recs == ExportedRecords
            names == [i \in 1..Len(recs[1]) |-> recs[1][i].key]
            value(r, k) ==
                IF \E f \in 1..Len(r) : r[f].key = k /\ r[f].has
                  THEN ValueText(r, k)
                  ELSE <<>>
            line(r) ==
                Separated([i \in 1..Len(names) |-> Wrapped(value(r, names[i]))],
                          ",")
        IN  IF recs = <<>>
              THEN exported = <<>>
              ELSE exported =
                     Separated(<<Separated([i \in 1..Len(names) |->
                                               <<names[i]>>], ",")>>
                                  \o [n \in 1..Len(recs) |-> line(recs[n])],
                               "\n")

\* C17 witness: two employees were exported, one whose name holds two
\* quotes and one without a name.
C17_Witness ==
    /\ lastOp.op = "ExportEmployees"
    /\ Len(employees) = 2
    /\ \E i \in 1..2 : /\ "full_name" \in DOMAIN employees[i]
                       /\ employees[i].full_name = <<"\"", "\"">>
    /\ \E i \in 1..2 : "full_name" \notin DOMAIN employees[i]
    /\ exported # <<>>

\* C18: a sign-in or sign-up that ends with an AuthError sets the inline
\* message to the error's message and leaves email, password and mode as
\* they are; a resubmission clears the message and starts a fresh attempt,
\* and the message after an attempt settles is determined by that attempt's
\* outcome alone.
C18_AuthErrorIsNonFatal ==
    [][/\ (lastOp'.op = "AuthSettles" /\ ~lastOp'.hit) =>
             /\ message' = lastOp'.msg
             /\ UNCHANGED <<email, password, isLogin, view, route>>
       /\ lastOp'.op = "SubmitAuth" =>
             /\ message' = ""
             /\ Len(pending') = Len(pending) + 1
       /\ (lastOp'.op = "AuthSettles" /\ lastOp'.hit) =>
             message' = IF lastOp'.kind = "signIn"
                          THEN "Login successful!"
                          ELSE "Account created! You can now log in."]_vars

\* C18 witness: a sign-up ended with an error, whose message is shown on the
\* form, still filled in and in sign-up mode.
C18_Witness ==
    /\ lastOp.op = "AuthSettles"
    /\ lastOp.kind = "signUp"
    /\ ~lastOp.hit
    /\ message = "User already registered"
    /\ view = "Login"
    /\ email # "" /\ password # "" /\ ~isLogin

\* C20: visiting /login shows the login page, visiting /dashboard shows the
\* dashboard page, and visiting any other path ends at /login with the
\* login page shown.
C20_Routing ==
    [][lastOp'.op = "Visit" =>
          CASE lastOp'.msg = "/login" ->
                   route' = "/login" /\ view' = "Login"
            [] lastOp'.msg = "/dashboard" ->
                   route' = "/dashboard" /\ view' = "Dashboard"
            [] OTHER -> route' = "/login" /\ view' = "Login"]_vars

\* C20 witness: a visit to /settings ended on the login page.
C20_Witness ==
    /\ lastOp.op = "Visit"
    /\ lastOp.msg = "/settings"
    /\ route = "/login"
    /\ view = "Login"

\* C21: an Update event whose key is present replaces the matching record
\* where it stands: the collection keeps its length, the event's record
\* stands at every position that held the key, and every record with another
\* key is unchanged, in each of the four collections.
C21_UpdateInPlace ==
    [][\A t \in Tables :
          (IsChange(lastOp', t, "UPDATE") /\ lastOp'.hit) =>
              /\ Len(CollNext(t)) = Len(Coll(t))
              /\ \A i \in 1..Len(Coll(t)) :
                    CollNext(t)[i] = IF Coll(t)[i].id = lastOp'.id
                                       THEN RowOf(lastOp')
                                       ELSE Coll(t)[i]]_vars

\* C21 witness: an Update set the progress of the second of two onboarding
\* records with different keys to 100.
C21_Witness ==
    /\ IsChange(lastOp, ONB, "UPDATE")
    /\ lastOp.hit
    /\ lastOp.val = 100
    /\ Len(onboardings) = 2
    /\ onboardings[1].id # lastOp.id
    /\ onboardings[2] = RowOf(lastOp)

\* C22: an Insert event on activity_logs puts its record at the front of
\* activities, keeps the previous entries behind it in their order, and
\* drops entries beyond the 100th from the tail only.
C22_ActivityInsertPrependsAndCuts ==
    [][IsChange(lastOp', ACT, "INSERT") =>
          /\ Len(activities') =
                IF Len(activities) + 1 > 100 THEN 100 ELSE Len(activities) + 1
          /\ activities'[1] = RowOf(lastOp')
          /\ \A i \in 2..Len(activities') : activities'[i] = activities[i - 1]]_vars

\* C22 witness: an Insert arrived when activities held 100 entries; the
\* collection still holds 100, the former 99th entry now last.
C22_Witness ==
    /\ IsChange(lastOp, ACT, "INSERT")
    /\ Len(activities) = 100
    /\ activities[1] = RowOf(lastOp)
    /\ activities[100] = [id |-> 99, val |-> 1]

\* C23: an employee_onboardings event prepends one locally generated entry
\* to activities exactly when it is an Update carrying progress 100; an
\* Insert, a Delete and an Update with another progress leave activities
\* as it is.
C23_SyntheticOnlyOnCompletion ==
    [][lastOp'.op = "Change" /\ lastOp'.table = ONB =>
          IF lastOp'.kind = "UPDATE" /\ lastOp'.val = 100
            THEN /\ Len(activities') = Len(activities) + 1
                 /\ Head(activities').id \in {SynthBase + now : now \in Nows}
                 /\ Tail(activities') = activities
            ELSE activities' = activities]_vars

\* C23 witness: an Update with progress 100 for a key the onboarding
\* collection does not hold left a locally generated entry at the front of
\* activities.
C23_Witness ==
    /\ IsChange(lastOp, ONB, "UPDATE")
    /\ lastOp.val = 100
    /\ ~lastOp.hit
    /\ activities # <<>>
    /\ Head(activities).id > SynthBase

InitialLoadOver == {"assigned", "failed", "discarded", "redirected"}

\* C24: a manual refresh whose four queries all succeed replaces each of
\* the four collections with the rows fetched for it; a fetch is in flight
\* only after the user's Retry or Refresh click, and an initial load that
\* has ended, failed or not, is never started again.
C24_RefreshReplacesAllNoAutoRetry ==
    [][/\ (lastOp'.op = "RefreshFulfilled" /\ lastOp'.rejected = {}) =>
             /\ employees' \in Snapshots(EMP, 0)
             /\ apps' \in Snapshots(APPS, 0)
             /\ onboardings' \in Snapshots(ONB, 0)
             /\ activities' \in Snapshots(ACT, RefreshActivityLimit)
       /\ (~refreshPending /\ refreshPending') => lastOp'.op = "RefreshStart"
       /\ pc \in InitialLoadOver => pc' = pc]_vars

\* C24 witness: the initial load failed, the user retried, and the refresh
\* filled all four collections.
C24_Witness ==
    /\ lastOp.op = "RefreshFulfilled"
    /\ lastOp.rejected = {}
    /\ pc = "failed"
    /\ error = ""
    /\ ~loading
    /\ employees # <<>> /\ apps # <<>> /\ onboardings # <<>>
    /\ Len(activities) = RefreshActivityLimit

\* C25: when an initial load or a manual refresh completes successfully,
\* each collection is exactly the fetched snapshot: whatever change events
\* were reconciled since the fetch began are overwritten, not re-applied.
C25_SnapshotOverwritesEvents ==
    /\ (lastOp.op = "ActivitiesResolve" /\ lastOp.kind = "" /\ pc = "assigned") =>
          /\ employees = empData /\ employees \in Snapshots(EMP, 0)
          /\ apps = appsData /\ apps \in Snapshots(APPS, 0)
          /\ onboardings = onboardData /\ onboardings \in Snapshots(ONB, 0)
          /\ activities \in Snapshots(ACT, InitialActivityLimit)
    /\ (lastOp.op = "RefreshFulfilled" /\ lastOp.rejected = {}) =>
          \A t \in Tables :
              Coll(t) \in Snapshots(t, IF t = ACT THEN RefreshActivityLimit
                                                  ELSE 0)

\* C25 witness: a change event was reconciled while the initial load was in
\* flight, and the load then assigned the snapshots; the event's record
\* (value 2, progress 100 or a generated key) is in no collection.
C25_Witness ==
    /\ lastOp.op = "ActivitiesResolve"
    /\ lastOp.kind = ""
    /\ pc = "assigned"
    /\ nEvents = 1
    /\ employees = Rows(1) /\ apps = Rows(1) /\ onboardings = OnbRows(1)
    /\ activities = Rows(InitialActivityLimit)

\* C26: while the dashboard stays mounted and every backend request
\* eventually settles, loading being true (in the initial load and in each
\* manual refresh) is eventually followed by loading being false, whether
\* the attempt succeeded, failed or ended in a redirect.
C26_LoadingEnds ==
    (life = "mounted" /\ loading) ~> (~loading \/ life = "unmounted")

\* C26 witness: the initial load ended in the redirect to /login and
\* loading is false on the still mounted dashboard.
C26_Witness ==
    /\ lastOp.op = "GetUserNone"
    /\ life = "mounted"
    /\ route = "/login"
    /\ ~loading

\* C27: neither step of a login-form submission changes the route or the
\* page shown; after a successful sign-in the login page stays, with the
\* success message.
C27_SubmitKeepsRoute ==
    [][lastOp'.op \in {"SubmitAuth", "AuthSettles"} =>
          /\ route' = route
          /\ view' = view
          /\ (lastOp'.hit /\ lastOp'.kind = "signIn") =>
                message' = "Login successful!"]_vars

\* C27 witness: a sign-in succeeded and the login page is still shown at
\* /login, with the success message.
C27_Witness ==
    /\ lastOp.op = "AuthSettles"
    /\ lastOp.kind = "signIn"
    /\ lastOp.hit
    /\ route = "/login"
    /\ view = "Login"
    /\ message = "Login successful!"

====
